---- MODULE Spec2Model ----
(***************************************************************************)
(* Model of get_timings.py: the per-entry parser and cross-validator       *)
(* parse_mode_string, the line scanner parse_c_file, and the module-level  *)
(* script that writes video_timings.json.                                  *)
(*                                                                         *)
(* Text is modelled structurally.  A mode string is the triple of its      *)
(* three sub-representations (comment, DRM_MODE macro parameter list,      *)
(* .picture_aspect_ratio token), each a record of the already tokenised    *)
(* fields.  A source line is a record of what the scanner tests on it      *)
(* (how it starts, whether it ends with "},") and the fragments of an      *)
(* entry it carries.  Floating point comparisons are modelled by exact     *)
(* rational arithmetic on integers.                                        *)
(***************************************************************************)
EXTENDS Integers, Sequences, FiniteSets, TLC

VARIABLES
    pc,             \* position: "scan", "returned", "done", "failed"; "call", "accepted", "raised"
    current_array,  \* parse_c_file: current_array (None or an array name)
    mode_string,    \* parse_c_file: mode_string (unbound, None or accumulated lines)
    video_modes,    \* parse_c_file: video_modes
    json_file,      \* contents of video_timings.json, or NoFile
    err,            \* the exception that ended the run, or "none"
    warnings,       \* number of tolerance warnings printed
    nread,          \* number of lines consumed by the for loop
    emitted,        \* history: the blocks handed to parse_mode_string
    in_other,       \* history: inside an array whose name is not a target
    pending,        \* history: a comment-open line started a block not yet flushed
    mode_in,        \* the mode string given to a direct parse_mode_string call
    result          \* the outcome of that call

vars == <<pc, current_array, mode_string, video_modes, json_file, err, warnings,
          nread, emitted, in_other, pending, mode_in, result>>

scanVars == <<current_array, mode_string, video_modes, json_file, err, warnings,
              nread, emitted, in_other, pending>>

None == "None"
NoFile == "NoFile"
NoMode == "NoMode"
NoResult == "NoResult"

----------------------------------------------------------------------------
(* Constants of the program *)

arrays_to_include == {"edid_cea_modes_1", "edid_cea_modes_193"}

ln4 == {6, 7, 8, 9, 10, 11, 12, 13, 50, 51, 58, 59}
ln7 == {2, 3, 14, 15, 35, 36, 48, 49, 56, 57}

get_ln(vic) ==
    IF vic \in ln4 THEN 4
    ELSE IF vic \in ln7 THEN 7
    ELSE 1

DBLCLK == "DRM_MODE_FLAG_DBLCLK"
INTERLACE == "DRM_MODE_FLAG_INTERLACE"
NHSYNC == "DRM_MODE_FLAG_NHSYNC"
NVSYNC == "DRM_MODE_FLAG_NVSYNC"
PHSYNC == "DRM_MODE_FLAG_PHSYNC"
PVSYNC == "DRM_MODE_FLAG_PVSYNC"

flags_avail == {DBLCLK, INTERLACE, NHSYNC, NVSYNC, PHSYNC, PVSYNC}

DRIVER == "DRM_MODE_TYPE_DRIVER"

----------------------------------------------------------------------------
(* parse_mode_string: the consistency checks *)

Abs(x) == IF x < 0 THEN -x ELSE x

\* set(mac_flags) - flags_avail is empty
FlagsKnown(mac_flags) == mac_flags \subseteq flags_avail

\* exactly one sync polarity flag per dimension
PolarityOkLax(mac_flags) ==
    /\ Cardinality({NHSYNC, PHSYNC} \cap mac_flags) <= 1
    /\ Cardinality({NVSYNC, PVSYNC} \cap mac_flags) <= 1

PolarityOk(mac_flags) ==
    /\ Cardinality({NHSYNC, PHSYNC} \cap mac_flags) = 1
    /\ Cardinality({NVSYNC, PVSYNC} \cap mac_flags) = 1

\* if mac_interlaced: assert mac_name_interlaced; assert cmnt_interlaced
InterlaceOk(mac_interlaced, mac_name_interlaced, cmnt_interlaced) ==
    mac_interlaced => (mac_name_interlaced /\ cmnt_interlaced)

\* if mac_dbl_clk: assert cmnt_dbl_clocked; assert 2*cmnt_hres == cmnt_dbl_hres
DblClkOk(mac_dbl_clk, cmt) ==
    mac_dbl_clk => (cmt.dbl_clocked /\ 2 * cmt.hres = cmt.dbl_hres)

\* fps_calc = clock*1000 / (vtotal*htotal), doubled when interlaced, as the
\* fraction FpsNum/FpsDen with a positive denominator
FpsNum(clock, htotal, vtotal, interlaced) ==
    (IF vtotal * htotal < 0 THEN -1 ELSE 1)
        * clock * 1000 * (IF interlaced THEN 2 ELSE 1)

FpsDen(htotal, vtotal) == Abs(vtotal * htotal)

\* The outcomes the refresh-rate comparison can have:
\* "equal":  fps_calc == float(cmnt_freq)
\* "warn":   abs(float(cmnt_freq) - fps_calc) < 0.005 * float(cmnt_freq)
\* "fail":   otherwise
\* Both sides of each comparison are multiplied by the positive FpsDen, and
\* the tolerance inequality by 200.  When the difference is exactly 0.5% of
\* the stated rate the two sides of the float comparison are equal as
\* rationals and binary rounding of 0.005, of the quotient and of the
\* difference decides the outcome, so both outcomes are possible.
FpsVerdictsWide(clock, htotal, vtotal, interlaced, freq) ==
    LET n == FpsNum(clock, htotal, vtotal, interlaced)
        d == FpsDen(htotal, vtotal)
    IN  IF n = freq * d THEN {"equal"}
        ELSE IF Abs(freq * d - n) * 100 < freq * d THEN {"warn"}
        ELSE IF Abs(freq * d - n) * 100 = freq * d THEN {"warn", "fail"}
        ELSE {"fail"}

FpsVerdicts(clock, htotal, vtotal, interlaced, freq) ==
    LET n == FpsNum(clock, htotal, vtotal, interlaced)
        d == FpsDen(htotal, vtotal)
    IN  IF n = freq * d THEN {"equal"}
        ELSE IF Abs(freq * d - n) * 200 < freq * d THEN {"warn"}
        ELSE IF Abs(freq * d - n) * 200 = freq * d THEN {"warn", "fail"}
        ELSE {"fail"}

\* the mode dictionary assembled at the end of parse_mode_string
BuildModeSlip(cmt, mac) ==
    [ vic            |-> cmt.id,
      name           |-> <<mac.name_hres, mac.name_vres, mac.name_interlaced, cmt.freq>>,
      pxl_clk_khz    |-> mac.clock,
      hactive        |-> mac.hdisplay,
      vactive        |-> mac.vdisplay,
      interlaced     |-> INTERLACE \in mac.flags,
      double_clocked |-> DBLCLK \in mac.flags,
      htotal         |-> mac.htotal,
      hblank         |-> mac.htotal - mac.hdisplay,
      hfront         |-> mac.hsync_start - mac.hdisplay,
      hsync          |-> mac.hsync_end - mac.hsync_start,
      hback          |-> mac.htotal - mac.hsync_start,
      hpol           |-> IF NHSYNC \in mac.flags THEN 0 ELSE 1,
      vtotal         |-> mac.vtotal,
      vblank         |-> mac.vtotal - mac.vdisplay,
      vfront         |-> mac.vsync_start - mac.vdisplay,
      vsync          |-> mac.vsync_end - mac.vsync_start,
      vback          |-> mac.vtotal - mac.vsync_end,
      vpol           |-> IF NVSYNC \in mac.flags THEN 0 ELSE 1,
      ln             |-> get_ln(cmt.id) ]

BuildMode(cmt, mac) ==
    [ vic            |-> cmt.id,
      name           |-> <<mac.name_hres, mac.name_vres, mac.name_interlaced, cmt.freq>>,
      pxl_clk_khz    |-> mac.clock,
      hactive        |-> mac.hdisplay,
      vactive        |-> mac.vdisplay,
      interlaced     |-> INTERLACE \in mac.flags,
      double_clocked |-> DBLCLK \in mac.flags,
      htotal         |-> mac.htotal,
      hblank         |-> mac.htotal - mac.hdisplay,
      hfront         |-> mac.hsync_start - mac.hdisplay,
      hsync          |-> mac.hsync_end - mac.hsync_start,
      hback          |-> mac.htotal - mac.hsync_end,
      hpol           |-> IF NHSYNC \in mac.flags THEN 0 ELSE 1,
      vtotal         |-> mac.vtotal,
      vblank         |-> mac.vtotal - mac.vdisplay,
      vfront         |-> mac.vsync_start - mac.vdisplay,
      vsync          |-> mac.vsync_end - mac.vsync_start,
      vback          |-> mac.vtotal - mac.vsync_end,
      vpol           |-> IF NVSYNC \in mac.flags THEN 0 ELSE 1,
      ln             |-> get_ln(cmt.id) ]

Failure(e) == [ok |-> FALSE, err |-> e, warn |-> FALSE, mode |-> NoMode]

\* The assertions of parse_mode_string in source order: the message of the
\* first one that fails on ms = [cmt, mac, asp], or "none"
FirstFailure(ms) ==
    LET cmt == ms.cmt
        mac == ms.mac
        asp == ms.asp
        mac_interlaced == INTERLACE \in mac.flags
        mac_dbl_clk == DBLCLK \in mac.flags
    IN  IF ~FlagsKnown(mac.flags) THEN "unknown flags"
        ELSE IF ~PolarityOk(mac.flags) THEN "illegal flag combination"
        ELSE IF ~InterlaceOk(mac_interlaced, mac.name_interlaced, cmt.interlaced)
            THEN "interlace"
        ELSE IF ~DblClkOk(mac_dbl_clk, cmt) THEN "double clocking"
        ELSE IF mac.hdisplay # cmt.hres THEN "hres comment"
        ELSE IF mac.name_hres # cmt.hres THEN "hres name"
        ELSE IF mac.vdisplay # cmt.vres THEN "vres comment"
        ELSE IF mac.name_vres # cmt.vres THEN "vres name"
        ELSE IF asp.nom # cmt.aspect_nom THEN "aspect"
        ELSE IF asp.denom # cmt.aspect_denom THEN "aspect"
        ELSE IF mac.type # DRIVER THEN "type"
        ELSE IF mac.hskew # 0 THEN "hskew"
        ELSE IF mac.vscan # 0 THEN "vscan"
        ELSE IF mac.vtotal * mac.htotal = 0 THEN "ZeroDivisionError"
        ELSE "none"

\* parse_mode_string on the split mode string ms: the set of outcomes it
\* can have (one, except at the exact tolerance boundary)
parse_mode_string(ms) ==
    LET f == FirstFailure(ms)
    IN  IF f # "none" THEN {Failure(f)}
        ELSE { IF v = "fail" THEN Failure("fps")
               ELSE [ok |-> TRUE, err |-> "none", warn |-> (v = "warn"),
                     mode |-> BuildMode(ms.cmt, ms.mac)] :
               v \in FpsVerdicts(ms.mac.clock, ms.mac.htotal, ms.mac.vtotal,
                                 INTERLACE \in ms.mac.flags, ms.cmt.freq) }

----------------------------------------------------------------------------
(* Mode strings given to parse_mode_string *)

MaxPorch == 2

\* a consistent, progressive entry: 38x16@500Hz 16:9 with clock 500 kHz and
\* totals 50 x 20
BaseComment ==
    [ id |-> 16, hres |-> 38, dbl_clocked |-> FALSE, dbl_hres |-> 0, vres |-> 16,
      interlaced |-> FALSE, freq |-> 500, aspect_nom |-> 16, aspect_denom |-> 9 ]

BaseMacro ==
    [ name_hres |-> 38, name_vres |-> 16, name_interlaced |-> FALSE,
      type |-> DRIVER, clock |-> 500,
      hdisplay |-> 38, hsync_start |-> 40, hsync_end |-> 44, htotal |-> 50, hskew |-> 0,
      vdisplay |-> 16, vsync_start |-> 17, vsync_end |-> 19, vtotal |-> 20, vscan |-> 0,
      flags |-> {PHSYNC, PVSYNC} ]

BaseAspect == [ nom |-> 16, denom |-> 9 ]

BaseMode == [ cmt |-> BaseComment, mac |-> BaseMacro, asp |-> BaseAspect ]

\* the flags field: every non-empty combination of known flags, the empty
\* field (which splits into the single token ""), and an unknown flag
FlagSets ==
    (SUBSET flags_avail \ {{}})
        \cup {{""}, {"DRM_MODE_FLAG_CSYNC", PHSYNC, PVSYNC}}

\* entries that vary the flags, the interlace suffixes of both names, the
\* doubled resolution of the comment and the mode identifier
FlagModes ==
    { [ cmt |-> [BaseComment EXCEPT !.id = id, !.interlaced = ci,
                                    !.dbl_clocked = dbl[1], !.dbl_hres = dbl[2]],
        mac |-> [BaseMacro EXCEPT !.flags = fl, !.name_interlaced = ni,
                                  !.clock = ck],
        asp |-> BaseAspect ] :
      id \in {2, 6, 16}, ci \in BOOLEAN, ni \in BOOLEAN,
      dbl \in {<<FALSE, 0>>, <<TRUE, 76>>, <<TRUE, 77>>},
      fl \in FlagSets, ck \in {250, 500} }

\* entries that vary the timing boundaries (ordered or not), the totals,
\* the pixel clock and the stated refresh rate
Porches == (-1) .. MaxPorch

TimingModes ==
    { [ cmt |-> [BaseComment EXCEPT !.freq = fr, !.interlaced = INTERLACE \in fl],
        mac |-> [BaseMacro EXCEPT !.flags = fl,
                                  !.name_interlaced = INTERLACE \in fl,
                                  !.clock = ck,
                                  !.hsync_start = 38 + hf, !.hsync_end = ht - hb,
                                  !.htotal = ht,
                                  !.vsync_start = 16 + vf, !.vsync_end = vt - vb,
                                  !.vtotal = vt],
        asp |-> BaseAspect ] :
      fr \in {250, 500}, ck \in {250, 251, 402, 500, 502, 503},
      ht \in {40, 50}, vt \in {20, 25},
      hf \in Porches, hb \in Porches, vf \in Porches, vb \in Porches,
      fl \in {{PHSYNC, PVSYNC}, {NHSYNC, NVSYNC},
              {PHSYNC, NVSYNC, INTERLACE}, {NHSYNC, PVSYNC, INTERLACE}} }

\* entries that break one of the remaining agreements
MismatchModes ==
    { [BaseMode EXCEPT !.mac.hdisplay = 37],
      [BaseMode EXCEPT !.mac.name_hres = 37],
      [BaseMode EXCEPT !.mac.vdisplay = 15],
      [BaseMode EXCEPT !.mac.name_vres = 15],
      [BaseMode EXCEPT !.asp.nom = 4],
      [BaseMode EXCEPT !.asp.denom = 3],
      [BaseMode EXCEPT !.mac.type = "DRM_MODE_TYPE_USERDEF"],
      [BaseMode EXCEPT !.mac.hskew = 1],
      [BaseMode EXCEPT !.mac.vscan = 1],
      [BaseMode EXCEPT !.mac.htotal = 0] }

ModeStrings == FlagModes \cup TimingModes \cup MismatchModes

----------------------------------------------------------------------------
(* Source lines and the split of a mode string *)

MaxLines == 6

\* the entries the scanned documents are written with: a consistent one, one
\* whose computed rate is 0.4% off (accepted with a warning), and one
\* without a vertical polarity flag (rejected)
EntryTable ==
    << BaseMode,
       [BaseMode EXCEPT !.cmt.id = 2, !.mac.clock = 502],
       [BaseMode EXCEPT !.cmt.id = 3, !.mac.flags = {PHSYNC}] >>

NoName == "NoName"

\* A stripped line: kind is what it starts with ("close" for "};", "decl" for
\* "static const struct drm_display_mode", "comment" for "/*", "other"
\* otherwise), arr the fifth word of a declaration up to "[" (NoName when
\* the line has fewer than five words), term whether it ends with "},",
\* frags the parts of an entry it carries, in order
Frag(t, e) == [t |-> t, e |-> e]

Line(kind, arr, term, frags) ==
    [kind |-> kind, arr |-> arr, term |-> term, frags |-> frags]

LineSet ==
    {Line("close", NoName, FALSE, <<>>)}
    \cup {Line("decl", a, FALSE, <<>>) :
            a \in arrays_to_include \cup {"edid_est_modes", NoName}}
    \cup {Line("comment", NoName, FALSE, <<Frag("cmt", e)>>) : e \in DOMAIN EntryTable}
    \cup {Line("other", NoName, TRUE, <<Frag("mac", e), Frag("asp", e)>>) :
            e \in DOMAIN EntryTable}
    \cup {Line("other", NoName, FALSE, <<>>), Line("other", NoName, TRUE, <<>>)}

RECURSIVE Concat(_)
Concat(ls) == IF ls = <<>> THEN <<>> ELSE ls[1].frags \o Concat(Tail(ls))

\* index of the first fragment of type t at a position in lo..hi of fs, or 0
FirstAt(fs, t, lo, hi) ==
    LET hits == {i \in lo .. hi : fs[i].t = t}
    IN  IF hits = {} THEN 0 ELSE CHOOSE i \in hits : \A j \in hits : i <= j

\* The three splits at the top of parse_mode_string on the accumulated
\* lines: the comment is the first one of the string, the macro the first
\* parameter list between that comment's close and the next comment close,
\* the aspect token the first one of the string.  A missing part is an
\* IndexError.
SplitMode(ls) ==
    LET fs == Concat(ls)
        c  == FirstAt(fs, "cmt", 1, Len(fs))
        c2 == IF c = 0 THEN 0 ELSE FirstAt(fs, "cmt", c + 1, Len(fs))
        m  == IF c = 0 THEN 0
              ELSE FirstAt(fs, "mac", c + 1, IF c2 = 0 THEN Len(fs) ELSE c2 - 1)
        a  == FirstAt(fs, "asp", 1, Len(fs))
    IN  IF c = 0 \/ m = 0 \/ a = 0 THEN [ok |-> FALSE]
        ELSE [ok |-> TRUE,
              ms |-> [cmt |-> EntryTable[fs[c].e].cmt,
                      mac |-> EntryTable[fs[m].e].mac,
                      asp |-> EntryTable[fs[a].e].asp]]

\* the outcomes of parse_mode_string(mode_string) on accumulated lines
ParseBlock(ls) ==
    LET sp == SplitMode(ls)
    IN  IF sp.ok THEN parse_mode_string(sp.ms) ELSE {Failure("IndexError")}

----------------------------------------------------------------------------
(* parse_c_file and the script around it *)

Init ==
    /\ pc = "scan"
    /\ current_array = None
    /\ mode_string = [st |-> "unbound", ls |-> <<>>]
    /\ video_modes = <<>>
    /\ json_file = NoFile
    /\ err = "none"
    /\ warnings = 0
    /\ nread = 0
    /\ emitted = <<>>
    /\ in_other = FALSE
    /\ pending = FALSE
    /\ mode_in = NoMode
    /\ result = NoResult

\* video_modes.append(parse_mode_string(mode_string)): an exception raised
\* by parse_mode_string is not caught and leaves the loop and the script
AppendResultSkip(modes, r) ==
    IF r.ok THEN [pc |-> "scan", modes |-> Append(modes, r.mode), err |-> "none"]
    ELSE [pc |-> "scan", modes |-> modes, err |-> "none"]

AppendResult(modes, r) ==
    IF r.ok THEN [pc |-> "scan", modes |-> Append(modes, r.mode), err |-> "none"]
    ELSE [pc |-> "failed", modes |-> modes, err |-> r.err]

\* the exception ends the script
Raise(e) ==
    /\ pc' = "failed"
    /\ err' = e
    /\ UNCHANGED <<current_array, mode_string, video_modes, json_file, warnings,
                   emitted, pending>>

\* the body of "if current_array:" for the line l, numbered n
Accumulate(l, n) ==
    LET tagged == [idx |-> n, kind |-> l.kind, term |-> l.term, frags |-> l.frags,
                   other |-> in_other]
    IN  IF l.kind # "comment" /\ mode_string.st # "str"
        THEN \* mode_string += line on an unbound name or on None
             Raise(IF mode_string.st = "unbound" THEN "UnboundLocalError"
                   ELSE "TypeError")
        ELSE LET ls == IF l.kind = "comment" THEN <<tagged>>
                       ELSE Append(mode_string.ls, tagged)
             IN  /\ mode_string' = [st |-> "str", ls |-> ls]
                 /\ UNCHANGED <<current_array, json_file>>
                 /\ IF l.term
                    THEN \E r \in ParseBlock(ls) :
                            LET o == AppendResult(video_modes, r)
                            IN  /\ pc' = o.pc
                                /\ video_modes' = o.modes
                                /\ err' = o.err
                                /\ warnings' = IF r.warn THEN warnings + 1
                                               ELSE warnings
                                /\ emitted' = Append(emitted, ls)
                                /\ pending' = FALSE
                    ELSE /\ pending' = (l.kind = "comment" \/ pending)
                         /\ UNCHANGED <<pc, video_modes, err, warnings, emitted>>

\* one iteration of "for line in lines" on the stripped line l
ReadLine(l) ==
    /\ pc = "scan"
    /\ nread < MaxLines
    /\ nread' = nread + 1
    /\ UNCHANGED <<mode_in, result>>
    /\ IF l.kind = "close"
       THEN /\ current_array' = None
            /\ mode_string' = [st |-> "None", ls |-> <<>>]
            /\ in_other' = FALSE
            /\ pending' = FALSE
            /\ UNCHANGED <<pc, video_modes, json_file, err, warnings, emitted>>
       ELSE IF l.kind = "decl" /\ l.arr = NoName
       THEN \* line.split()[4]
            Raise("IndexError") /\ UNCHANGED in_other
       ELSE IF l.kind = "decl" /\ l.arr \in arrays_to_include
       THEN /\ current_array' = l.arr
            /\ in_other' = FALSE
            /\ UNCHANGED <<pc, mode_string, video_modes, json_file, err, warnings,
                           emitted, pending>>
       ELSE /\ in_other' = (l.kind = "decl" \/ in_other)
            /\ IF current_array # None
               THEN Accumulate(l, nread + 1)
               ELSE UNCHANGED <<pc, current_array, mode_string, video_modes,
                                json_file, err, warnings, emitted, pending>>

\* the for loop ends: parse_c_file returns video_modes
EndOfInput ==
    /\ pc = "scan"
    /\ pc' = "returned"
    /\ UNCHANGED <<scanVars, mode_in, result>>

\* the script writes video_timings.json
WriteOutput ==
    /\ pc = "returned"
    /\ json_file' = video_modes
    /\ pc' = "done"
    /\ UNCHANGED <<current_array, mode_string, video_modes, err, warnings, nread,
                   emitted, in_other, pending, mode_in, result>>

Next ==
    \/ \E l \in LineSet : ReadLine(l)
    \/ EndOfInput
    \/ WriteOutput

Spec == Init /\ [][Next]_vars

----------------------------------------------------------------------------
(* A direct call of parse_mode_string *)

InitParse ==
    /\ pc = "call"
    /\ mode_in \in ModeStrings
    /\ result = NoResult
    /\ current_array = None
    /\ mode_string = [st |-> "unbound", ls |-> <<>>]
    /\ video_modes = <<>>
    /\ json_file = NoFile
    /\ err = "none"
    /\ warnings = 0
    /\ nread = 0
    /\ emitted = <<>>
    /\ in_other = FALSE
    /\ pending = FALSE

\* parse_mode_string(mode_in) returns a record or raises
Parse ==
    /\ pc = "call"
    /\ \E r \in parse_mode_string(mode_in) :
          /\ result' = r
          /\ pc' = IF r.ok THEN "accepted" ELSE "raised"
          /\ warnings' = IF r.warn THEN warnings + 1 ELSE warnings
          /\ err' = r.err
    /\ UNCHANGED <<current_array, mode_string, video_modes, json_file,
                   nread, emitted, in_other, pending, mode_in>>

NextParse == Parse

SpecParse == InitParse /\ [][NextParse]_vars

----------------------------------------------------------------------------
(* Properties of parse_mode_string *)

Returned == pc = "accepted"
Raised == pc = "raised"

\* C1: every record parse_mode_string returns has
\* htotal = hactive + hfront + hsync + hback and
\* vtotal = vactive + vfront + vsync + vback
C1_TotalsAddUp ==
    Returned =>
        LET m == result.mode
        IN  /\ m.htotal = m.hactive + m.hfront + m.hsync + m.hback
            /\ m.vtotal = m.vactive + m.vfront + m.vsync + m.vback

\* a record with all porches and sync widths positive was returned
C1_Witness ==
    /\ Returned
    /\ result.mode.hfront > 0 /\ result.mode.hsync > 0 /\ result.mode.hback > 0
    /\ result.mode.vfront > 0 /\ result.mode.vsync > 0 /\ result.mode.vback > 0

ExactlyOne(a, b, S) == (a \in S) # (b \in S)

\* C6: an entry is accepted only with exactly one of NHSYNC/PHSYNC and
\* exactly one of NVSYNC/PVSYNC, otherwise it is rejected with an error; in
\* an accepted record hpol is 0 exactly when NHSYNC is present and 1 exactly
\* when PHSYNC is present, and likewise vpol
C6_PolarityExactlyOne ==
    LET fl == mode_in.mac.flags
    IN  /\ Returned =>
              /\ ExactlyOne(NHSYNC, PHSYNC, fl)
              /\ ExactlyOne(NVSYNC, PVSYNC, fl)
              /\ result.mode.hpol \in {0, 1}
              /\ result.mode.vpol \in {0, 1}
              /\ (result.mode.hpol = 0) <=> (NHSYNC \in fl)
              /\ (result.mode.hpol = 1) <=> (PHSYNC \in fl)
              /\ (result.mode.vpol = 0) <=> (NVSYNC \in fl)
              /\ (result.mode.vpol = 1) <=> (PVSYNC \in fl)
        /\ (pc # "call" /\ ~(ExactlyOne(NHSYNC, PHSYNC, fl)
                              /\ ExactlyOne(NVSYNC, PVSYNC, fl)))
              => (Raised /\ err # "none" /\ result.mode = NoMode)

\* an entry with NHSYNC and PVSYNC was accepted with hpol 0 and vpol 1
C6_Witness ==
    /\ Returned
    /\ NHSYNC \in mode_in.mac.flags /\ PVSYNC \in mode_in.mac.flags
    /\ result.mode.hpol = 0 /\ result.mode.vpol = 1

\* C7: interlace agreement holds in both directions: the INTERLACE flag
\* without the suffix on both names is rejected, the suffix on either name
\* without the INTERLACE flag is rejected, and an accepted record is
\* interlaced if and only if the comment encodes interlace
C7_InterlaceBothDirections ==
    LET flag == INTERLACE \in mode_in.mac.flags
        ni == mode_in.mac.name_interlaced
        ci == mode_in.cmt.interlaced
    IN  Returned =>
            /\ flag => (ni /\ ci)
            /\ (ni \/ ci) => flag
            /\ result.mode.interlaced <=> ci

\* C8: in every accepted record hblank, hfront, hsync, hback, vblank,
\* vfront, vsync and vback are all >= 0
C8_DerivedNonNegative ==
    Returned =>
        LET m == result.mode
        IN  /\ m.hblank >= 0 /\ m.hfront >= 0 /\ m.hsync >= 0 /\ m.hback >= 0
            /\ m.vblank >= 0 /\ m.vfront >= 0 /\ m.vsync >= 0 /\ m.vback >= 0

\* the refresh rate computed from the macro, as C9Num / C9Hv, and the
\* stated one
C9Num ==
    mode_in.mac.clock * 1000 * (IF INTERLACE \in mode_in.mac.flags THEN 2 ELSE 1)
C9Hv == mode_in.mac.vtotal * mode_in.mac.htotal
C9Stated == mode_in.cmt.freq
\* |computed - stated| in thousandths of C9Hv
C9Diff == Abs(C9Num - C9Stated * C9Hv) * 1000
\* one per cent of stated in the same unit is 10 * C9Stated * C9Hv
C9Permille(k) == k * C9Stated * C9Hv

\* C9: an entry that passes all other checks is accepted without a warning
\* when computed = stated, accepted with a warning when they differ by less
\* than 0.5% of stated, rejected when they differ by more; a difference of
\* exactly 0.4% is accepted with a warning, one of exactly 0.6% is rejected
C9_RefreshTolerance ==
    (pc # "call" /\ result.err \in {"none", "fps"} /\ C9Hv > 0) =>
        /\ (C9Diff = 0) => (Returned /\ ~result.warn /\ warnings = 0)
        /\ (C9Diff # 0 /\ C9Diff < C9Permille(5))
              => (Returned /\ result.warn /\ warnings = 1)
        /\ (C9Diff > C9Permille(5)) => (Raised /\ result.err = "fps")
        /\ (C9Diff = C9Permille(4)) => (Returned /\ result.warn)
        /\ (C9Diff = C9Permille(6)) => Raised

\* an entry whose computed rate is exactly 0.4% off was accepted with a warning
C9_Witness ==
    /\ Returned /\ result.warn
    /\ C9Diff = C9Permille(4)

\* an entry whose computed rate is exactly 0.6% off was rejected
C9_RejectedReached ==
    /\ Raised /\ result.err = "fps"
    /\ C9Diff = C9Permille(6)

----------------------------------------------------------------------------
(* Properties of parse_c_file and of the script *)

Finished == pc \in {"returned", "done"}

\* C2: the record list parse_c_file returns holds no two records with the
\* same mode identifier
C2_UniqueVic ==
    Finished =>
        \A i, j \in 1 .. Len(video_modes) :
            i # j => video_modes[i].vic # video_modes[j].vic

\* the block b was accepted by parse_mode_string as the record m
AcceptedAs(b, m) == \E r \in ParseBlock(b) : r.ok /\ r.mode = m

C3_FailureReached ==
    /\ pc = "failed" /\ Len(emitted) = 2 /\ Len(video_modes) = 1
    /\ json_file = NoFile

\* C4: when the input ends while a target array is open and a block begun
\* by a comment-open line has not been flushed, the run fails and returns
\* no record list
C4_TruncatedInputFails ==
    (pc # "scan" /\ current_array # None /\ pending) => pc = "failed"

\* C5: no line that follows the declaration of an array that is not a
\* target, up to that array's close line, is accumulated into mode_string
\* or is part of a block handed to parse_mode_string
C5_OtherArrayIgnored ==
    /\ \A i \in 1 .. Len(mode_string.ls) : ~mode_string.ls[i].other
    /\ \A k \in 1 .. Len(emitted) :
          \A i \in 1 .. Len(emitted[k]) : ~emitted[k][i].other

\* the block b runs from one comment-open line through the first following
\* line that ends with the entry terminator
WellDelimited(b) ==
    /\ b[1].kind = "comment"
    /\ b[Len(b)].term
    /\ \A i \in 1 .. Len(b) - 1 : ~b[i].term
    /\ \A i \in 1 .. Len(b) - 1 : b[i + 1].idx = b[i].idx + 1

\* C10: every block handed to parse_mode_string is well delimited, no line
\* is part of two blocks, and the records are in the order of the
\* terminator lines
C10_BlocksDisjoint ==
    /\ \A k \in 1 .. Len(emitted) : WellDelimited(emitted[k])
    /\ \A k \in 1 .. Len(emitted) - 1 :
          emitted[k][Len(emitted[k])].idx < emitted[k + 1][1].idx
    /\ Finished => Len(video_modes) = Len(emitted)

====
